---- MODULE Spec2Model ----
(***************************************************************************)
(* The Mott-Schottky notebook of pyscses: the sweep over (mole fraction,   *)
(* temperature) combinations that builds a Set_of_Sites, a Grid and a      *)
(* Calculation per combination, solves for the potential and records       *)
(* max(phi) and the Mott-Schottky approximation ms_phi.                    *)
(*                                                                         *)
(* The notebook is the code under src/.  The pyscses library it calls      *)
(* (Set_of_Sites, Grid, Calculation) is not under src/; its operations are *)
(* modelled from spec.md.                                                  *)
(*                                                                         *)
(* Numbers are fixed point integers:                                       *)
(*   energies and potentials   micro-eV                                    *)
(*   temperatures              K * 100                                     *)
(*   reduced potentials y      1/Milli                                     *)
(*   exponentials, ratios      1/Scale                                     *)
(*   mole fractions            1/Scale                                     *)
(***************************************************************************)
EXTENDS Integers, Sequences, FiniteSets

VARIABLES
    cfg,      \* the notebook's parameter cells (constant during a run of the notebook)
    loop,     \* position of the sweep cell's two for loops
    run,      \* per (mole fraction, temperature) combination: the objects of its loop body
    limits,   \* the name `limits` of the sweep cell (assigned before the loops, and inside)
    space_charge_potential_list,
    MS_space_charge_potential_list,
    rt        \* round trip of the Mott-Schottky formula (SpecMS only)

vars == <<cfg, loop, run, limits, space_charge_potential_list,
          MS_space_charge_potential_list, rt>>

----------------------------------------------------------------------------
(* Fixed point arithmetic *)

Scale == 10000
Milli == 1000

Abs(x) == IF x < 0 THEN -x ELSE x
Max2(a, b) == IF a >= b THEN a ELSE b
Min2(a, b) == IF a <= b THEN a ELSE b

\* floor(a * b / d) without forming a * b (a may be large, b * d must stay small)
MulDiv(a, b, d) == (a \div d) * b + ((a % d) * b) \div d

\* e^n * Scale for n = 0 .. 8
EPow == <<10000, 27183, 73891, 200855, 545982, 1484132, 4034288, 10966332, 29809580>>

RECURSIVE ExpSeries(_, _, _)
\* sum of the Taylor terms of e^(f/Milli) from term number k on, `term` being term k-1
ExpSeries(f, k, term) ==
    LET next == (term * f) \div (Milli * k)
    IN  IF next = 0 THEN 0 ELSE next + ExpSeries(f, k + 1, next)

\* e^(y/Milli) * Scale for 0 <= y < 9 * Milli
Exp(y) ==
    LET n == y \div Milli
        f == y % Milli
    IN  MulDiv(EPow[n + 1], Scale + ExpSeries(f, 1, Scale), Scale)

YMax == 9 * Milli - 1

\* e^(-u/Milli) * Scale, u clamped to the range of Exp
Boltzmann(u) ==
    LET w == Min2(Abs(u), YMax)
    IN  IF u >= 0 THEN (Scale * Scale) \div Exp(w) ELSE Exp(w)

----------------------------------------------------------------------------
(* The notebook's parameter cells *)

boltzmann_eV == 8617     \* k_B in 1e-8 eV / K

temp == <<77315, 87315, 97315, 107315, 117315, 127315>>
valence == <<1, -1>>
mole_fractions == << <<2000, 2000>> >>
initial_guess == << <<2000, 2000>> >>

\* k_B T in micro-eV
kT(t) == (boltzmann_eV * t) \div 10000

----------------------------------------------------------------------------
(* Mott-Schottky formula and its inversion *)

\* reduced potential z Phi0 / k_B T, in 1/Milli
Reduced(phi0, z, t) == (z * phi0 * Milli) \div kT(t)

\* exp(y) / (2 y) * Scale for y > 0
MSRatio(y) == MulDiv(Exp(y), Milli, 2 * y)

\* the formula without the factor 2 of the denominator
MS_formula_NoTwo(phi0, z, t) ==
    LET y == Reduced(phi0, z, t)
    IN  IF y > 0 THEN MulDiv(Exp(Min2(y, YMax)), Milli, y)
        ELSE -MulDiv(Boltzmann(-y), Milli, -y)

\* r_GB = exp(z Phi0 / k_B T) / (2 z Phi0 / k_B T), times Scale
MS_formula(phi0, z, t) ==
    LET y == Reduced(phi0, z, t)
    IN  IF y > 0 THEN MSRatio(Min2(y, YMax))
        ELSE -MulDiv(Boltzmann(-y), Milli, 2 * (-y))

\* the branch of the formula on which the right-hand side increases: y >= 1
YMin == Milli

RECURSIVE Bisect(_, _, _)
\* least y in lo .. hi with MSRatio(y) >= r, given MSRatio(hi) >= r
Bisect(r, lo, hi) ==
    IF lo >= hi THEN hi
    ELSE LET mid == (lo + hi) \div 2
         IN  IF MSRatio(mid) >= r THEN Bisect(r, lo, mid) ELSE Bisect(r, mid + 1, hi)

NoRoot == [ok |-> FALSE, phi |-> 0]

\* Calculation.solve_MS_approx_for_phi: Phi0 with r_GB = exp(z Phi0/kT) / (2 z Phi0/kT)
MS_invert(r_GB, z, t) ==
    IF r_GB < Scale THEN NoRoot
    ELSE IF MSRatio(YMin) > r_GB \/ MSRatio(YMax) < r_GB THEN NoRoot
    ELSE [ok |-> TRUE, phi |-> (Bisect(r_GB, YMin, YMax) * kT(t)) \div (z * Milli)]

----------------------------------------------------------------------------
(* Round trip of the formula: Phi0 -> r_GB -> Phi0 *)

Phi0Cases == {100000, 200000, 500000}

NoRT == [pc |-> "off", phi0 |-> 0, z |-> 1, t |-> temp[1], r_GB |-> 0, out |-> NoRoot]

RTCompute ==
    /\ rt.pc = "start"
    /\ rt' = [rt EXCEPT !.pc = "ratio", !.r_GB = MS_formula(rt.phi0, rt.z, rt.t)]
    /\ UNCHANGED <<cfg, loop, run, limits, space_charge_potential_list,
                   MS_space_charge_potential_list>>

RTInvert ==
    /\ rt.pc = "ratio"
    /\ rt' = [rt EXCEPT !.pc = "done", !.out = MS_invert(rt.r_GB, rt.z, rt.t)]
    /\ UNCHANGED <<cfg, loop, run, limits, space_charge_potential_list,
                   MS_space_charge_potential_list>>

----------------------------------------------------------------------------
(* The input data and the per-site objects *)

site_labels == <<"site_1", "site_2">>
defect_labels == <<"defect_1", "defect_2">>
mobilities == <<1, 1>>
dielectric == 1

\* the sites of the input file, left to right: label and segregation energy of the
\* defect the site hosts ("one_seg", "weak": one segregating site, the grain boundary
\* core; "two_seg": both sites of the mobile defect segregate)
SiteLabelsOfData == <<"site_1", "site_2", "site_1", "site_2">>
SegregationEnergies(data) ==
    IF data = "weak" THEN <<-300000, 0, 0, 0>>
    ELSE IF data = "two_seg" THEN <<-100000, 0, -100000, 0>>
    ELSE <<-400000, 0, 0, 0>>

NumSites == Len(SiteLabelsOfData)
DefectOfSite(label) == IF label = "site_1" THEN "defect_1" ELSE "defect_2"
DefectIndex(d) == IF d = "defect_1" THEN 1 ELSE 2

Range(s) == {s[i] : i \in DOMAIN s}

RECURSIVE SumSeq(_)
SumSeq(s) == IF s = <<>> THEN 0 ELSE Head(s) + SumSeq(Tail(s))

RECURSIVE MaxSeq(_)
MaxSeq(s) == IF Len(s) = 1 THEN s[1] ELSE Max2(Head(s), MaxSeq(Tail(s)))

Clamp(x, lo, hi) == Max2(lo, Min2(x, hi))

\* Set_of_Sites.set_of_sites_from_input_data: the Site objects, by identity
SitesFromData(data) ==
    [i \in 1 .. NumSites |->
        [label  |-> SiteLabelsOfData[i],
         x      |-> i,
         defect |-> DefectOfSite(SiteLabelsOfData[i]),
         energy |-> SegregationEnergies(data)[i],
         fixed  |-> FALSE]]

\* Set_of_Sites.form_continuum_sites: the sites resampled on a uniform mesh
ContinuumSites(site) == [i \in DOMAIN site |-> [site[i] EXCEPT !.x = 2 * i]]

\* the limits calculate_grid_offsets returns, and those of the continuum mesh
DataLimits == <<1, 1>>
ContinuumLimits == <<2, 2>>

\* Set_of_Sites.subset: the sites with the label, as references into the collection
subset(site, all_sites, label) == SelectSeq(all_sites, LAMBDA id : site[id].label = label)

\* a sweep that pins for gouy-chapman and releases for mott-schottky
SetFixed_Negated(site, ids, d, flag) ==
    [i \in DOMAIN site |->
        IF i \in Range(ids) /\ site[i].defect = d
        THEN [site[i] EXCEPT !.fixed = ~flag] ELSE site[i]]

\* site.defect_with_label(d).fixed = flag, for every site of ids
SetFixed(site, ids, d, flag) ==
    [i \in DOMAIN site |->
        IF i \in Range(ids) /\ site[i].defect = d
        THEN [site[i] EXCEPT !.fixed = flag] ELSE site[i]]

----------------------------------------------------------------------------
(* Calculation: the damped fixed point iteration for the potential *)

MaxIter == 12
MaxTrials == 8
PoissonGain == 30
EnergyCap == 1000000
UMax == 5 * Milli
ConcentrationFloor == 200

\* the Boltzmann factors of the reduced energies the solver can meet, tabulated
BoltzmannFactor == [u \in -UMax .. UMax |-> Boltzmann(u)]

\* local mole fraction of the defect hosted by site s at potential p (site exclusion)
Concentration(s, p, bulk, t) ==
    LET d == DefectIndex(s.defect)
        e == Clamp(valence[d] * p + s.energy, -EnergyCap, EnergyCap)
        u == Clamp((e * Milli) \div kT(t), -UMax, UMax)
        B == BoltzmannFactor[u]
    IN  IF s.fixed THEN bulk[d]
        ELSE MulDiv(B, bulk[d], Scale + MulDiv(B - Scale, bulk[d], Scale))

\* the mole fractions at potential phi (phi[i] is evaluated once per site)
Concentrations(site, all_sites, phi, bulk, t) ==
    [i \in DOMAIN all_sites |->
        CHOOSE r \in {Concentration(site[all_sites[i]], p, bulk, t) : p \in {phi[i]}} :
            TRUE]

\* charge of the sites in excess of the neutral bulk
ChargeDensity(site, all_sites, c, bulk) ==
    [i \in DOMAIN all_sites |->
        LET d == DefectIndex(site[all_sites[i]].defect)
        IN  valence[d] * (c[i] - bulk[d])]

\* the trial potential of the discretised Poisson equation (one lumped cell)
PoissonSolve(rho) ==
    [i \in DOMAIN rho |-> (PoissonGain * SumSeq(rho)) \div dielectric]

\* steps 3 to 5 of an iteration: damped update, concentrations, residual, verdict
Relax(co, phi_new, site, all_sites, t, alpha, conv) ==
    LET phi == [i \in DOMAIN co.phi |->
                   co.phi[i] + (alpha[1] * (phi_new[i] - co.phi[i])) \div alpha[2]]
        res == MaxSeq([i \in DOMAIN co.phi |-> Abs(phi_new[i] - co.phi[i])])
        n   == co.niter + 1
    IN  [co EXCEPT !.phi = phi,
                   !.c = Concentrations(site, all_sites, phi, co.bulk, t),
                   !.residual = res,
                   !.niter = n,
                   !.state = IF res < conv THEN "Converged"
                             ELSE IF n >= MaxIter THEN "MaxIterExceeded"
                             ELSE "Iterating"]

\* one step of the solve loop: charge density, Poisson solve, then the update
IterateCalc(co, site, all_sites, t, alpha, conv) ==
    CHOOSE r \in {Relax(co, phi_new, site, all_sites, t, alpha, conv) :
                     phi_new \in {PoissonSolve(ChargeDensity(site, all_sites,
                                                             co.c, co.bulk))}} : TRUE

\* entry of solve(): the potential restarts from zero
BeginSolve(co, site, all_sites, t, phase) ==
    LET zero == [i \in DOMAIN all_sites |-> 0]
    IN  [co EXCEPT !.state = "Iterating", !.phase = phase, !.niter = 0, !.residual = 0,
                   !.phi = zero,
                   !.c = Concentrations(site, all_sites, zero, co.bulk, t)]

\* spatial average of the mole fraction of defect d
Average(site, all_sites, c, d) ==
    LET idx == {i \in DOMAIN all_sites : site[all_sites[i]].defect = defect_labels[d]}
    IN  SumSeq([i \in DOMAIN c |-> IF i \in idx THEN c[i] ELSE 0]) \div Cardinality(idx)

CorrectionTolerance == 200

Matches(avg, target) ==
    \A d \in DOMAIN target : Abs(avg[d] - target[d]) <= CorrectionTolerance

\* the next trial bulk mole fractions of the correction loop
NextTrial(bulk, avg, target, alpha) ==
    [d \in DOMAIN bulk |->
        Max2(1, bulk[d] + (alpha[1] * (target[d] - avg[d])) \div alpha[2])]

\* the sites hosting a positively charged defect
PositiveSites(site, all_sites) ==
    {i \in DOMAIN all_sites : valence[DefectIndex(site[all_sites[i]].defect)] > 0}

\* Calculation.calculate_resistivity_ratio: mean of c_bulk / c(x), times Scale
ResistivityRatio(site, all_sites, c, bulk) ==
    LET idx == PositiveSites(site, all_sites)
    IN  SumSeq([i \in DOMAIN c |->
                   IF i \in idx
                   THEN (bulk[DefectIndex(site[all_sites[i]].defect)] * Scale) \div c[i]
                   ELSE 0]) \div Cardinality(idx)

FloorHit(site, all_sites, c) ==
    \E i \in PositiveSites(site, all_sites) : c[i] < ConcentrationFloor

----------------------------------------------------------------------------
(* The sweep cell: one action per statement of the loop body *)

NumRuns == Len(mole_fractions) * Len(temp)
Runs == 1 .. NumRuns
ParRuns == 2

\* the loop variables m and t of combination k
MoleOf(k) == mole_fractions[((k - 1) \div Len(temp)) + 1]
TempOf(k) == temp[((k - 1) % Len(temp)) + 1]

NoError == [name |-> "", phi |-> <<>>, residual |-> 0]

NullCalc ==
    [state |-> "none", phase |-> "idle", niter |-> 0, residual |-> 0, trial |-> 0,
     t |-> 0,
     phi |-> <<>>, c |-> <<>>, bulk |-> <<>>, subgrids |-> <<>>,
     mf |-> <<>>, r_GB |-> <<>>, ms_phi |-> <<>>]

NullRun ==
    [pc |-> "defect_species", err |-> NoError, defect_species |-> <<>>,
     site |-> <<>>, all_sites |-> <<>>, grid |-> <<>>, c_o |-> NullCalc]

\* a loop body that catches the exception and goes on to record the run
Raise_Swallowed(rn, name, phi, residual) == [rn EXCEPT !.pc = "append_phi"]

\* a loop body that catches the exception, defaults ms_phi and records the run
Raise_DefaultMS(rn, name, phi, residual) ==
    [rn EXCEPT !.pc = "append_phi", !.c_o.ms_phi = <<0>>]

\* an exception leaves the loop body; the sweep cell has no handler
Raise(rn, name, phi, residual) ==
    [rn EXCEPT !.pc = "raised",
               !.err = [name |-> name, phi |-> phi, residual |-> residual]]

\* which combination may take its next step
Sched(k) ==
    IF loop.mode = "sweep" THEN loop.status = "running" /\ k = loop.cur
    ELSE loop.mode = "dispatch" /\ k <= ParRuns

\* the for loops: next combination after the body, end of the cell on an exception
After(k, rn) ==
    IF loop.mode # "sweep" THEN loop
    ELSE IF rn.pc = "raised" THEN [loop EXCEPT !.status = "aborted"]
    ELSE IF rn.pc = "done"
         THEN [loop EXCEPT !.cur = k + 1,
                           !.status = IF k = NumRuns THEN "finished" ELSE "running"]
    ELSE loop

Step(k, rn) ==
    \E r \in {rn} :
        /\ run' = [run EXCEPT ![k] = r]
        /\ loop' = After(k, r)

\* the names the notebook's parameter cells define
Defined(notebook, name) == notebook = "part_000" \/ name # "mobilities"

NewDefectSpecies(k) ==
    /\ Sched(k)
    /\ run[k].pc = "defect_species"
    /\ Step(k, IF Defined(cfg.notebook, "mobilities")
               THEN [run[k] EXCEPT !.pc = "sites",
                        !.defect_species =
                            [d \in DOMAIN defect_labels |->
                                [label |-> defect_labels[d], valence |-> valence[d],
                                 mole_fraction |-> MoleOf(k)[d],
                                 mobility |-> mobilities[d]]]]
               ELSE Raise(run[k], "NameError", <<>>, 0))
    /\ UNCHANGED <<cfg, limits, space_charge_potential_list,
                   MS_space_charge_potential_list, rt>>

SitesFromInputData(k) ==
    /\ Sched(k)
    /\ run[k].pc = "sites"
    /\ Step(k, IF cfg.data = "malformed"
               THEN Raise(run[k], "InputFormatError", <<>>, 0)
               ELSE [run[k] EXCEPT
                        !.pc = IF cfg.site_models = "continuum" THEN "continuum"
                               ELSE "fixed",
                        !.site = SitesFromData(cfg.data),
                        !.all_sites = [i \in 1 .. NumSites |-> i]])
    /\ UNCHANGED <<cfg, limits, space_charge_potential_list,
                   MS_space_charge_potential_list, rt>>

FormContinuumSites(k) ==
    /\ Sched(k)
    /\ run[k].pc = "continuum"
    /\ Step(k, [run[k] EXCEPT !.pc = "fixed", !.site = ContinuumSites(run[k].site)])
    /\ limits' = ContinuumLimits
    /\ UNCHANGED <<cfg, space_charge_potential_list,
                   MS_space_charge_potential_list, rt>>

\* a sweep that selects the sites of the other label
FixedSubsetLabel_Other == "site_1"

\* the label of the sites whose defect is pinned or released
FixedSubsetLabel == "site_2"

SetFixedFlags(k) ==
    /\ Sched(k)
    /\ run[k].pc = "fixed"
    /\ LET ids == subset(run[k].site, run[k].all_sites, FixedSubsetLabel)
       IN  Step(k, [run[k] EXCEPT
                        !.pc = "grid",
                        !.site = IF cfg.systems \in {"mott-schottky", "gouy-chapman"}
                                 THEN SetFixed(run[k].site, ids, "defect_2",
                                               cfg.systems = "mott-schottky")
                                 ELSE run[k].site])
    /\ UNCHANGED <<cfg, limits, space_charge_potential_list,
                   MS_space_charge_potential_list, rt>>

GridFromSetOfSites(k) ==
    /\ Sched(k)
    /\ run[k].pc = "grid"
    /\ Step(k, [run[k] EXCEPT !.pc = "calculation",
                              !.grid = [sites |-> run[k].all_sites, limits |-> limits]])
    /\ UNCHANGED <<cfg, limits, space_charge_potential_list,
                   MS_space_charge_potential_list, rt>>

\* a body whose workers read the loop variable t shared by all of them: the
\* temperature of the combination started last
NewCalculation_SharedT(k) ==
    /\ Sched(k)
    /\ run[k].pc = "calculation"
    /\ LET last == CHOOSE j \in Runs :
                       /\ run[j].pc # "defect_species"
                       /\ \A i \in Runs : run[i].pc # "defect_species" => i <= j
       IN  Step(k, [run[k] EXCEPT
                       !.pc = "subgrids",
                       !.c_o = [NullCalc EXCEPT
                                   !.state = "Uninitialized",
                                   !.t = TempOf(last),
                                   !.phi = [i \in DOMAIN run[k].grid.sites |-> 0],
                                   !.bulk = [d \in DOMAIN run[k].defect_species |->
                                                run[k].defect_species[d].mole_fraction]]])
    /\ UNCHANGED <<cfg, limits, space_charge_potential_list,
                   MS_space_charge_potential_list, rt>>

NewCalculation(k) ==
    /\ Sched(k)
    /\ run[k].pc = "calculation"
    /\ Step(k, [run[k] EXCEPT
                    !.pc = "subgrids",
                    !.c_o = [NullCalc EXCEPT
                                !.state = "Uninitialized",
                                !.t = TempOf(k),
                                !.phi = [i \in DOMAIN run[k].grid.sites |-> 0],
                                !.bulk = [d \in DOMAIN run[k].defect_species |->
                                             run[k].defect_species[d].mole_fraction]]])
    /\ UNCHANGED <<cfg, limits, space_charge_potential_list,
                   MS_space_charge_potential_list, rt>>

\* a sweep that runs the correction whatever the system
AfterSubgrids_Always(systems) == "correction"

\* the statement after form_subgrids: the correction runs for gouy-chapman only
AfterSubgrids(systems) == IF systems = "gouy-chapman" THEN "correction" ELSE "solve"

\* a form_subgrids that regroups the sites of the Grid label by label
FormSubgrids_Regrouping(k) ==
    /\ Sched(k)
    /\ run[k].pc = "subgrids"
    /\ LET views == [l \in DOMAIN site_labels |->
                        subset(run[k].site, run[k].grid.sites, site_labels[l])]
       IN  Step(k, [run[k] EXCEPT
                       !.pc = AfterSubgrids(cfg.systems),
                       !.c_o.subgrids = views,
                       !.grid.sites = views[1] \o views[2]])
    /\ UNCHANGED <<cfg, limits, space_charge_potential_list,
                   MS_space_charge_potential_list, rt>>

FormSubgrids(k) ==
    /\ Sched(k)
    /\ run[k].pc = "subgrids"
    /\ Step(k, [run[k] EXCEPT
                    !.pc = AfterSubgrids(cfg.systems),
                    !.c_o.subgrids =
                        [l \in DOMAIN site_labels |->
                            subset(run[k].site, run[k].grid.sites, site_labels[l])]])
    /\ UNCHANGED <<cfg, limits, space_charge_potential_list,
                   MS_space_charge_potential_list, rt>>

conv == 2000
AlphaSet == {<<1, 4>>, <<1, 2>>, <<1, 1>>}

\* mole_fraction_correction, entry: the first trial starts from the initial guess
BeginCorrection(co, site, all_sites, guess) ==
    BeginSolve([co EXCEPT !.bulk = guess, !.trial = 1], site, all_sites, co.t, "correction")

\* the converged averages of the trial, as <<defect_1, defect_2>>
Averages(co, site, all_sites) ==
    [d \in DOMAIN defect_labels |-> Average(site, all_sites, co.c, d)]

\* mole_fraction_correction, after an inner solve: done, or the next trial
CompareTrial(co, site, all_sites, target, alpha) ==
    LET avg == Averages(co, site, all_sites)
    IN  IF Matches(avg, target) THEN [co EXCEPT !.phase = "idle"]
        ELSE BeginSolve([co EXCEPT !.bulk = NextTrial(co.bulk, avg, target, alpha),
                                   !.trial = co.trial + 1],
                        site, all_sites, co.t, "correction")

CorrectionBegin(k) ==
    /\ Sched(k)
    /\ run[k].pc = "correction"
    /\ run[k].c_o.state = "Uninitialized"
    /\ Step(k, [run[k] EXCEPT !.c_o = BeginCorrection(run[k].c_o, run[k].site,
                                  run[k].grid.sites, initial_guess[1])])
    /\ UNCHANGED <<cfg, limits, space_charge_potential_list,
                   MS_space_charge_potential_list, rt>>

CorrectionCompare(k) ==
    /\ Sched(k)
    /\ run[k].pc = "correction"
    /\ run[k].c_o.state = "Converged"
    /\ LET co == CompareTrial(run[k].c_o, run[k].site, run[k].grid.sites,
                              MoleOf(k), cfg.alpha)
       IN  /\ co.trial <= MaxTrials
           /\ Step(k, [run[k] EXCEPT !.c_o = co,
                          !.pc = IF co.phase = "idle" THEN "solve" ELSE "correction"])
    /\ UNCHANGED <<cfg, limits, space_charge_potential_list,
                   MS_space_charge_potential_list, rt>>

\* a body that goes on to the queries without calling solve()
SolveBegin_Skipped(k) ==
    /\ Sched(k)
    /\ run[k].pc = "solve"
    /\ run[k].c_o.state \in {"Uninitialized", "Converged"}
    /\ Step(k, [run[k] EXCEPT
                   !.pc = "mole_fractions",
                   !.c_o.c = Concentrations(run[k].site, run[k].grid.sites,
                                            run[k].c_o.phi, run[k].c_o.bulk, run[k].c_o.t)])
    /\ UNCHANGED <<cfg, limits, space_charge_potential_list,
                   MS_space_charge_potential_list, rt>>

SolveBegin(k) ==
    /\ Sched(k)
    /\ run[k].pc = "solve"
    /\ run[k].c_o.state \in {"Uninitialized", "Converged"}
    /\ Step(k, [run[k] EXCEPT !.c_o = BeginSolve(run[k].c_o, run[k].site,
                                  run[k].grid.sites, run[k].c_o.t, "main")])
    /\ UNCHANGED <<cfg, limits, space_charge_potential_list,
                   MS_space_charge_potential_list, rt>>

Iterate(k) ==
    /\ Sched(k)
    /\ run[k].pc \in {"correction", "solve"}
    /\ run[k].c_o.state = "Iterating"
    /\ \E co \in {IterateCalc(run[k].c_o, run[k].site, run[k].grid.sites,
                               run[k].c_o.t, cfg.alpha, conv)} :
           LET rn == [run[k] EXCEPT !.c_o = co]
           IN  Step(k, IF co.state = "MaxIterExceeded"
                       THEN Raise(rn, "ConvergenceFailure", co.phi, co.residual)
                       ELSE IF co.state = "Converged" /\ run[k].pc = "solve"
                            THEN [rn EXCEPT !.pc = "mole_fractions", !.c_o.phase = "idle"]
                            ELSE rn)
    /\ UNCHANGED <<cfg, limits, space_charge_potential_list,
                   MS_space_charge_potential_list, rt>>

\* Calculation.mole_fractions: the averages, stored on the Calculation
CalcMoleFractions(co, site, all_sites) ==
    [co EXCEPT !.mf = Averages(co, site, all_sites)]

MoleFractions(k) ==
    /\ Sched(k)
    /\ run[k].pc = "mole_fractions"
    /\ Step(k, [run[k] EXCEPT !.pc = "resistivity",
                   !.c_o = CalcMoleFractions(run[k].c_o, run[k].site, run[k].grid.sites)])
    /\ UNCHANGED <<cfg, limits, space_charge_potential_list,
                   MS_space_charge_potential_list, rt>>

CalculateResistivityRatio(k) ==
    /\ Sched(k)
    /\ run[k].pc = "resistivity"
    /\ LET co == run[k].c_o
       IN  Step(k, IF FloorHit(run[k].site, run[k].grid.sites, co.c)
                   THEN Raise(run[k], "DegenerateIntegration", <<>>, 0)
                   ELSE [run[k] EXCEPT !.pc = "ms_approx",
                            !.c_o.r_GB = <<ResistivityRatio(run[k].site,
                                              run[k].grid.sites, co.c, co.bulk)>>])
    /\ UNCHANGED <<cfg, limits, space_charge_potential_list,
                   MS_space_charge_potential_list, rt>>

SolveMSApprox(k) ==
    /\ Sched(k)
    /\ run[k].pc = "ms_approx"
    /\ LET out == MS_invert(run[k].c_o.r_GB[1], valence[1], run[k].c_o.t)
       IN  Step(k, IF out.ok
                   THEN [run[k] EXCEPT !.pc = "append_phi", !.c_o.ms_phi = <<out.phi>>]
                   ELSE Raise(run[k], "NoRootInBracket", <<>>, 0))
    /\ UNCHANGED <<cfg, limits, space_charge_potential_list,
                   MS_space_charge_potential_list, rt>>

\* a body that takes the maximum out of c_o.phi while recording it
AppendPhi_Popping(k) ==
    /\ Sched(k)
    /\ run[k].pc = "append_phi"
    /\ run[k].c_o.phi # <<>>
    /\ Step(k, [run[k] EXCEPT !.pc = "append_ms", !.c_o.phi = Tail(run[k].c_o.phi)])
    /\ space_charge_potential_list' =
           Append(space_charge_potential_list, MaxSeq(run[k].c_o.phi))
    /\ UNCHANGED <<cfg, limits, MS_space_charge_potential_list, rt>>

AppendPhi(k) ==
    /\ Sched(k)
    /\ run[k].pc = "append_phi"
    /\ IF run[k].c_o.phi = <<>>
       THEN /\ Step(k, Raise(run[k], "ValueError", <<>>, 0))
            /\ UNCHANGED space_charge_potential_list
       ELSE /\ Step(k, [run[k] EXCEPT !.pc = "append_ms"])
            /\ space_charge_potential_list' =
                   Append(space_charge_potential_list, MaxSeq(run[k].c_o.phi))
    /\ UNCHANGED <<cfg, limits, MS_space_charge_potential_list, rt>>

\* a loop body that ends without the second append
AppendMS_Skipping(k) ==
    /\ Sched(k)
    /\ run[k].pc = "append_ms"
    /\ Step(k, [run[k] EXCEPT !.pc = "done"])
    /\ UNCHANGED <<cfg, limits, space_charge_potential_list,
                   MS_space_charge_potential_list, rt>>

AppendMS(k) ==
    /\ Sched(k)
    /\ run[k].pc = "append_ms"
    /\ IF run[k].c_o.ms_phi = <<>>
       THEN /\ Step(k, Raise(run[k], "AttributeError", <<>>, 0))
            /\ UNCHANGED MS_space_charge_potential_list
       ELSE /\ Step(k, [run[k] EXCEPT !.pc = "done"])
            /\ MS_space_charge_potential_list' =
                   Append(MS_space_charge_potential_list, run[k].c_o.ms_phi[1])
    /\ UNCHANGED <<cfg, limits, space_charge_potential_list, rt>>

----------------------------------------------------------------------------
(* Cancellation between two iterations *)

\* an abort that keeps the partial iterate on the Calculation
AbortCalc_KeepPartial(co) == [co EXCEPT !.state = "Aborted"]

\* the Calculation after an abort: the partial state is discarded
AbortCalc(co) == [NullCalc EXCEPT !.state = "Aborted", !.t = co.t]

\* the cooperative check between two iterations finds the budget exhausted
Cancel(k) ==
    /\ Sched(k)
    /\ run[k].pc \in {"correction", "solve"}
    /\ run[k].c_o.state = "Iterating"
    /\ Step(k, Raise([run[k] EXCEPT !.c_o = AbortCalc(run[k].c_o)], "Cancelled", <<>>, 0))
    /\ UNCHANGED <<cfg, limits, space_charge_potential_list,
                   MS_space_charge_potential_list, rt>>

----------------------------------------------------------------------------
(* A run executed alone, from construction to the end of solve() *)

RECURSIVE SolveAlone(_, _, _, _)
SolveAlone(co, site, all_sites, alpha) ==
    IF co.state # "Iterating" THEN co
    ELSE SolveAlone(IterateCalc(co, site, all_sites, co.t, alpha, conv),
                    site, all_sites, alpha)

RECURSIVE CorrectAlone(_, _, _, _, _)
CorrectAlone(co, site, all_sites, target, alpha) ==
    LET inner == SolveAlone(co, site, all_sites, alpha)
        nx    == CompareTrial(inner, site, all_sites, target, alpha)
    IN  IF inner.state # "Converged" THEN inner
        ELSE IF nx.phase = "idle" THEN nx
        ELSE IF nx.trial > MaxTrials THEN inner
        ELSE CorrectAlone(nx, site, all_sites, target, alpha)

RunAlone(k) ==
    LET ids  == [i \in 1 .. NumSites |-> i]
        raw  == SitesFromData(cfg.data)
        mesh == IF cfg.site_models = "continuum" THEN ContinuumSites(raw) ELSE raw
        site == SetFixed(mesh, subset(mesh, ids, FixedSubsetLabel), "defect_2",
                         cfg.systems = "mott-schottky")
        co0  == [NullCalc EXCEPT !.state = "Uninitialized", !.t = TempOf(k),
                                 !.phi = [i \in 1 .. NumSites |-> 0],
                                 !.bulk = MoleOf(k)]
        co1  == IF cfg.systems = "gouy-chapman"
                THEN CorrectAlone(BeginCorrection(co0, site, ids, initial_guess[1]),
                                  site, ids, MoleOf(k), cfg.alpha)
                ELSE co0
    IN  IF co1.state = "Uninitialized" \/ (co1.state = "Converged" /\ co1.phase = "idle")
        THEN SolveAlone(BeginSolve(co1, site, ids, co1.t, "main"), site, ids, cfg.alpha)
        ELSE co1

----------------------------------------------------------------------------
(* Specifications *)

Configs ==
    [notebook    : {"part_000", "Ex_4_MSapp"},
     data        : {"one_seg", "weak", "two_seg", "malformed"},
     site_models : {"site_explicit", "continuum"},
     systems     : {"mott-schottky", "gouy-chapman"},
     alpha       : AlphaSet]

InitWith(mode) ==
    /\ cfg \in Configs
    /\ loop = [mode |-> mode, cur |-> 1, status |-> "running"]
    /\ run = [k \in Runs |-> NullRun]
    /\ limits = DataLimits
    /\ space_charge_potential_list = <<>>
    /\ MS_space_charge_potential_list = <<>>
    /\ rt = NoRT

Init == InitWith("sweep")

Next ==
    \E k \in Runs :
        \/ NewDefectSpecies(k)
        \/ SitesFromInputData(k)
        \/ FormContinuumSites(k)
        \/ SetFixedFlags(k)
        \/ GridFromSetOfSites(k)
        \/ NewCalculation(k)
        \/ FormSubgrids(k)
        \/ CorrectionBegin(k)
        \/ CorrectionCompare(k)
        \/ SolveBegin(k)
        \/ Iterate(k)
        \/ MoleFractions(k)
        \/ CalculateResistivityRatio(k)
        \/ SolveMSApprox(k)
        \/ AppendPhi(k)
        \/ AppendMS(k)

Spec == Init /\ [][Next]_vars

\* the interpreter executes the next statement of the cell as long as there is one
FairSpec == Spec /\ WF_vars(Next)

InitMS ==
    /\ cfg \in {c \in Configs : c.notebook = "part_000" /\ c.data = "weak"
                                /\ c.site_models = "site_explicit"
                                /\ c.systems = "mott-schottky" /\ c.alpha = <<1, 2>>}
    /\ loop = [mode |-> "formula", cur |-> 1, status |-> "running"]
    /\ run = [k \in Runs |-> NullRun]
    /\ limits = DataLimits
    /\ space_charge_potential_list = <<>>
    /\ MS_space_charge_potential_list = <<>>
    /\ rt \in [pc : {"start"}, phi0 : Phi0Cases, z : Range(valence), t : Range(temp),
               r_GB : {0}, out : {NoRoot}]

NextMS == RTCompute \/ RTInvert

SpecMS == InitMS /\ [][NextMS]_vars

\* the sweep with a budget check between the iterations of a solve
NextCancel == Next \/ \E k \in Runs : Cancel(k)

SpecCancel == Init /\ [][NextCancel]_vars

\* the loop body of the first ParRuns combinations dispatched to concurrent workers
ParConfigs ==
    {c \in Configs :
        /\ c.notebook = "part_000"
        /\ c.data \in {"one_seg", "two_seg"}
        /\ \/ c.systems = "mott-schottky" /\ c.alpha = <<1, 2>>
           \/ /\ c.systems = "gouy-chapman" /\ c.alpha = <<1, 4>>
              /\ c.data = "two_seg" /\ c.site_models = "site_explicit"}

InitPar == InitWith("dispatch") /\ cfg \in ParConfigs

SpecPar == InitPar /\ [][Next]_vars

----------------------------------------------------------------------------
(* Properties *)

\* resolution of the round trip: a fifth of a meV
RoundTripTolerance == Milli \div 5

PastSolve == {"mole_fractions", "resistivity", "ms_approx", "append_phi", "append_ms", "done"}

\* C1: a solve that reaches the iteration cap with residual >= conv ends in
\* MaxIterExceeded and is raised to the sweep as ConvergenceFailure carrying the last
\* iterate and residual; such a run is never Converged and has no entry in either
\* result list; every recorded run is Converged with residual < conv.
C1_NonConvergedNeverRecorded ==
    \A k \in Runs :
        LET co == run[k].c_o
        IN  /\ (co.state # "Iterating" /\ co.niter = MaxIter /\ co.residual >= conv)
                  => /\ co.state = "MaxIterExceeded"
                     /\ run[k].pc = "raised"
                     /\ run[k].err = [name |-> "ConvergenceFailure", phi |-> co.phi,
                                      residual |-> co.residual]
            /\ co.state = "MaxIterExceeded"
                  => /\ co.residual >= conv
                     /\ Len(space_charge_potential_list) < k
                     /\ Len(MS_space_charge_potential_list) < k
            /\ k <= Len(space_charge_potential_list)
                  => co.state = "Converged" /\ co.residual < conv

C1_Witness ==
    \E k \in Runs :
        /\ k > 1
        /\ run[k].c_o.state = "MaxIterExceeded"
        /\ run[k].err.name = "ConvergenceFailure"
        /\ run[k].err.phi = run[k].c_o.phi
        /\ Len(space_charge_potential_list) = k - 1

\* C2: a failed run does not stop the sweep: after run k has raised, with runs left,
\* the sweep is still running and has moved on to a later run.
C2_SweepContinues ==
    \A k \in Runs :
        (run[k].pc = "raised" /\ k < NumRuns) => (loop.status = "running" /\ loop.cur > k)

C5_SubsetIsView ==
    \A k \in Runs :
        (run[k].site # <<>> /\ run[k].pc \notin {"continuum", "fixed"})
            => /\ Len(run[k].site) = NumSites
               /\ \A i \in DOMAIN run[k].site :
                      run[k].site[i].fixed =
                          (/\ cfg.systems = "mott-schottky"
                           /\ run[k].site[i].label = "site_2"
                           /\ run[k].site[i].defect = "defect_2")
               /\ \A i \in DOMAIN run[k].c_o.c :
                      run[k].site[run[k].grid.sites[i]].fixed
                          => run[k].c_o.c[i] = run[k].c_o.bulk[2]

C5_Witness ==
    \E k \in Runs :
        /\ run[k].pc = "done"
        /\ run[k].site[2].fixed
        /\ ~run[k].site[1].fixed
        /\ run[k].c_o.c[2] = run[k].c_o.bulk[2]
        /\ run[k].c_o.c[1] # run[k].c_o.bulk[1]

\* C6: the mole fraction correction runs for gouy-chapman only and before the main
\* solve; every trial is a full inner solve brought to Converged before its averages
\* are compared with the target; the outer loop ends only on a match; the main solve
\* then converges to averages that match the target.
C6_CorrectionBeforeSolve ==
    /\ [](\A k \in Runs :
            LET co == run[k].c_o
            IN  /\ co.trial > 0 => cfg.systems = "gouy-chapman"
                /\ (cfg.systems = "gouy-chapman" /\ co.phase = "main") => co.trial > 0
                /\ co.phase = "correction" => run[k].pc \in {"correction", "raised"}
                /\ (cfg.systems = "gouy-chapman" /\ run[k].pc \in PastSolve)
                      => Matches(Averages(co, run[k].site, run[k].grid.sites), MoleOf(k)))
    /\ [][\A k \in Runs :
            LET co == run[k].c_o
                avg == Averages(co, run[k].site, run[k].grid.sites)
            IN  /\ (co.trial > 0 /\ run'[k].c_o.trial # co.trial)
                      => /\ co.state = "Converged"
                         /\ ~Matches(avg, MoleOf(k))
                         /\ run'[k].c_o.trial = co.trial + 1
                         /\ run'[k].c_o.state = "Iterating"
                         /\ run'[k].c_o.niter = 0
                /\ (run[k].pc = "correction" /\ run'[k].pc = "solve")
                      => co.state = "Converged" /\ Matches(avg, MoleOf(k))]_vars

C6_Witness ==
    \E k \in Runs :
        /\ cfg.systems = "gouy-chapman"
        /\ run[k].c_o.trial >= 2
        /\ run[k].c_o.phase = "idle"
        /\ run[k].c_o.state = "Converged"
        /\ run[k].c_o.mf # <<>>
        /\ run[k].c_o.bulk # MoleOf(k)

C8_RoundTripAll ==
    rt.pc = "done" => (rt.out.ok /\ Abs(rt.out.phi - rt.phi0) <= RoundTripTolerance)

\* C8: the round trip returns Phi0 within the tolerance for z = +1 when
\* Phi0 >= k_B T; for z = -1 the ratio of the formula is negative (at most 0 in fixed
\* point) and the inversion fails; for z = +1 and Phi0 < k_B T the inversion fails or returns the other root
\* of the formula, which is larger than Phi0.
C8_RoundTrip ==
    rt.pc = "done" =>
        LET y == Reduced(rt.phi0, rt.z, rt.t)
        IN  /\ (rt.z = 1 /\ y >= Milli)
                  => rt.out.ok /\ Abs(rt.out.phi - rt.phi0) <= RoundTripTolerance
            /\ rt.z = -1 => rt.r_GB <= 0 /\ ~rt.out.ok
            /\ (rt.z = 1 /\ y < Milli)
                  => ~rt.out.ok \/ rt.out.phi > rt.phi0 + RoundTripTolerance

C8_Witness ==
    /\ rt.pc = "done"
    /\ rt.z = 1
    /\ rt.phi0 = 500000
    /\ rt.out.ok
    /\ Abs(rt.out.phi - rt.phi0) <= RoundTripTolerance
    /\ rt.r_GB > Scale
\* C9 as stated: the sweep runs one solver at a time; an Uninitialized solver is
\* eventually left, and only for Iterating; an Iterating solver eventually stops, and
\* only in Converged or MaxIterExceeded; no terminal state is ever left again.
C9_TerminalNeverLeft ==
    /\ (\E k \in Runs : run[k].c_o.state = "Uninitialized")
          ~> (\A k \in Runs : run[k].c_o.state # "Uninitialized")
    /\ (\E k \in Runs : run[k].c_o.state = "Iterating")
          ~> (\A k \in Runs : run[k].c_o.state \in {"none", "Converged", "MaxIterExceeded"})
    /\ [][\A k \in Runs :
            /\ (run[k].c_o.state = "Uninitialized" /\ run'[k].c_o.state # "Uninitialized")
                  => run'[k].c_o.state = "Iterating"
            /\ (run[k].c_o.state = "Iterating" /\ run'[k].c_o.state # "Iterating")
                  => run'[k].c_o.state \in {"Converged", "MaxIterExceeded"}]_vars
    /\ [][\A k \in Runs :
            run[k].c_o.state \in {"Converged", "MaxIterExceeded"}
                => run'[k].c_o.state = run[k].c_o.state]_vars

\* C9: an Uninitialized solver is eventually left, and only for Iterating; an
\* Iterating solver eventually stops, and only in Converged or MaxIterExceeded, within
\* MaxIter iterations; MaxIterExceeded is never
\* left; Converged is never left for mott-schottky, and for gouy-chapman it is left
\* only when the next solve starts on the same Calculation (next trial of the
\* correction, or the main solve after it).
C9_SolveTerminates ==
    /\ (\E k \in Runs : run[k].c_o.state = "Uninitialized")
          ~> (\A k \in Runs : run[k].c_o.state # "Uninitialized")
    /\ (\E k \in Runs : run[k].c_o.state = "Iterating")
          ~> (\A k \in Runs : run[k].c_o.state \in {"none", "Converged", "MaxIterExceeded"})
    /\ [][\A k \in Runs :
            /\ (run[k].c_o.state = "Uninitialized" /\ run'[k].c_o.state # "Uninitialized")
                  => run'[k].c_o.state = "Iterating"
            /\ (run[k].c_o.state = "Iterating" /\ run'[k].c_o.state # "Iterating")
                  => run'[k].c_o.state \in {"Converged", "MaxIterExceeded"}]_vars
    /\ [](\A k \in Runs : run[k].c_o.niter <= MaxIter)
    /\ [][\A k \in Runs :
            /\ run[k].c_o.state = "MaxIterExceeded"
                  => run'[k].c_o.state = "MaxIterExceeded"
            /\ (run[k].c_o.state = "Converged" /\ run'[k].c_o.state # "Converged")
                  => /\ cfg.systems = "gouy-chapman"
                     /\ run[k].pc \in {"correction", "solve"}
                     /\ run'[k].c_o.state = "Iterating"
                     /\ run'[k].c_o.niter = 0]_vars

C9_Witness ==
    \E k \in Runs :
        /\ cfg.systems = "gouy-chapman"
        /\ run[k].c_o.state = "Iterating"
        /\ run[k].c_o.trial >= 2
        /\ run[k].c_o.niter = 0

\* C10: a run aborted between two iterations is never Converged afterwards, its
\* partial phi is discarded, it has no r_GB and no ms_phi, the exception carries no
\* iterate, and nothing is recorded for it in either list.
C10_AbortDiscards ==
    /\ [](\A k \in Runs :
            run[k].c_o.state = "Aborted"
                => /\ run[k].pc = "raised"
                   /\ run[k].err = [name |-> "Cancelled", phi |-> <<>>, residual |-> 0]
                   /\ run[k].c_o.phi = <<>>
                   /\ run[k].c_o.c = <<>>
                   /\ run[k].c_o.r_GB = <<>>
                   /\ run[k].c_o.ms_phi = <<>>
                   /\ Len(space_charge_potential_list) < k
                   /\ Len(MS_space_charge_potential_list) < k)
    /\ [][\A k \in Runs :
            run[k].c_o.state = "Aborted" => run'[k].c_o.state = "Aborted"]_vars

C10_Witness ==
    \E k \in Runs :
        /\ k > 1
        /\ run[k].c_o.state = "Aborted"
        /\ run[k].err.name = "Cancelled"
        /\ Len(space_charge_potential_list) = k - 1


C11_PipelineOrder ==
    /\ [](\A k \in Runs :
            LET co == run[k].c_o
            IN  /\ run[k].site # <<>> => run[k].defect_species # <<>>
                /\ run[k].grid # <<>>
                      => run[k].site # <<>> /\ run[k].grid.sites = run[k].all_sites
                /\ co.state # "none"
                      => run[k].grid # <<>> /\ DOMAIN co.phi = DOMAIN run[k].grid.sites
                /\ run[k].pc \in PastSolve
                      => co.state = "Converged" /\ co.phase = "idle" /\ co.residual < conv
                /\ co.mf # <<>> => co.state = "Converged"
                /\ co.r_GB # <<>> => co.state = "Converged" /\ co.mf # <<>>
                /\ co.ms_phi # <<>> => co.state = "Converged" /\ co.r_GB # <<>>)
    /\ [][\A k \in Runs :
            /\ run'[k].c_o.r_GB # run[k].c_o.r_GB
                  => /\ run[k].pc = "resistivity"
                     /\ run[k].c_o.state = "Converged"
                     /\ run'[k].c_o.r_GB
                           = <<ResistivityRatio(run[k].site, run[k].grid.sites,
                                                run[k].c_o.c, run[k].c_o.bulk)>>
            /\ run'[k].c_o.ms_phi # run[k].c_o.ms_phi
                  => /\ run[k].pc = "ms_approx"
                     /\ run[k].c_o.state = "Converged"
                     /\ run[k].c_o.r_GB # <<>>]_vars

C11_Witness ==
    \E k \in Runs :
        /\ run[k].pc = "append_phi"
        /\ run[k].c_o.state = "Converged"
        /\ run[k].c_o.niter > 1
        /\ run[k].c_o.r_GB # <<>>
        /\ run[k].c_o.ms_phi # <<>>
        /\ run[k].grid.sites = run[k].all_sites

C14_ListsInLockstep ==
    LET completed == Cardinality({k \in Runs : run[k].pc = "done"})
        between   == \E k \in Runs : run[k].pc = "append_ms"
    IN  /\ Len(MS_space_charge_potential_list) = completed
        /\ Len(space_charge_potential_list)
               = IF between THEN completed + 1 ELSE completed
        /\ \A k \in Runs : run[k].pc = "done" <=> k <= completed
        /\ loop.cur = completed + 1
        /\ \A i \in DOMAIN space_charge_potential_list :
              /\ run[i].c_o.phi # <<>>
              /\ space_charge_potential_list[i] = MaxSeq(run[i].c_o.phi)
              /\ run[i].c_o.t = TempOf(i)
              /\ \A d \in DOMAIN defect_labels :
                    run[i].defect_species[d].mole_fraction = MoleOf(i)[d]
        /\ \A i \in DOMAIN MS_space_charge_potential_list :
              /\ run[i].c_o.ms_phi # <<>>
              /\ MS_space_charge_potential_list[i] = run[i].c_o.ms_phi[1]
        /\ loop.status = "finished"
              => /\ Len(space_charge_potential_list) = Len(mole_fractions) * Len(temp)
                 /\ Len(MS_space_charge_potential_list) = Len(mole_fractions) * Len(temp)

C14_Witness ==
    /\ loop.status = "finished"
    /\ Len(space_charge_potential_list) = NumRuns
    /\ Len(MS_space_charge_potential_list) = NumRuns
    /\ NumRuns = 6
    /\ space_charge_potential_list[4] = MaxSeq(run[4].c_o.phi)
    /\ MS_space_charge_potential_list[4] = run[4].c_o.ms_phi[1]
    /\ run[4].c_o.t = temp[4]
    /\ run[6].c_o.t = temp[6]
    /\ run[4].defect_species[1].mole_fraction = mole_fractions[1][1]

\* C15: with the cells executed once in document order, every name the sweep cell
\* reads has been assigned by an earlier cell, so the first DefectSpecies construction
\* is reached without an undefined-name error: no run ends in a NameError, and the
\* first run that has left the construction holds its defect species.
C15_NamesDefined ==
    /\ \A k \in Runs : run[k].err.name # "NameError"
    /\ run[1].pc # "defect_species" => run[1].defect_species # <<>>

====
